---- MODULE Spec2Model ----
(***************************************************************************)
(* A model of stockbot.py: one scheduled invocation of main() after        *)
(* another, each loading state.json, handling the pending Telegram         *)
(* updates, deciding whether the daily report is due, sending it and       *)
(* writing state.json back.                                                *)
(*                                                                         *)
(* Strings are sequences of one-character strings, so that strip, split,   *)
(* lower, upper and the character filter of normalize_ticker are computed. *)
(* None is modelled per field: 0 for a chat id, a user id or a date        *)
(* (Telegram ids are non-zero and dates start at 1), -1 for a price.       *)
(*                                                                         *)
(* Line 241 of stockbot.py (if cmd == "/test":) is indented by nine        *)
(* columns; the model reads it at the eight columns of the other command   *)
(* branches of the loop.                                                   *)
(***************************************************************************)
EXTENDS Integers, Sequences, FiniteSets, TLC

\* ------------------------------------------------------------------ bounds
MaxUpdates == 2
MaxDate == 2
SentCap == 2

\* --------------------------------------------------------------- characters
Digits == <<"0", "1", "2", "3", "4", "5", "6", "7", "8", "9">>

Uppers == <<"A", "B", "C", "D", "E", "F", "G", "H", "I", "J", "K", "L", "M",
            "N", "O", "P", "Q", "R", "S", "T", "U", "V", "W", "X", "Y", "Z">>

Lowers == <<"a", "b", "c", "d", "e", "f", "g", "h", "i", "j", "k", "l", "m",
            "n", "o", "p", "q", "r", "s", "t", "u", "v", "w", "x", "y", "z">>

\* The characters of the model in code point order.
Ascii == <<" ", "$", ",", "-", ".", "/">> \o Digits \o Uppers \o <<"_">> \o Lowers

Range(s) == {s[i] : i \in 1..Len(s)}

Ord(c) == CHOOSE i \in 1..Len(Ascii) : Ascii[i] = c

IsSpace(c) == c = " "

\* str.upper() and str.lower() on one character.
Upper(c) == IF \E i \in 1..26 : Lowers[i] = c
            THEN Uppers[CHOOSE i \in 1..26 : Lowers[i] = c]
            ELSE c

Lower(c) == IF \E i \in 1..26 : Uppers[i] = c
            THEN Lowers[CHOOSE i \in 1..26 : Uppers[i] = c]
            ELSE c

UpperStr(s) == [i \in 1..Len(s) |-> Upper(s[i])]

LowerStr(s) == [i \in 1..Len(s) |-> Lower(s[i])]

\* The character class [A-Za-z0-9\.\-\_] of normalize_ticker.
IsTickerChar(c) == c \in Range(Uppers) \cup Range(Lowers) \cup Range(Digits) \cup {".", "-", "_"}

RECURSIVE LStrip(_)
LStrip(s) == IF s # <<>> /\ IsSpace(Head(s)) THEN LStrip(Tail(s)) ELSE s

RECURSIVE RStrip(_)
RStrip(s) == IF s # <<>> /\ IsSpace(s[Len(s)]) THEN RStrip(SubSeq(s, 1, Len(s) - 1)) ELSE s

\* str.strip()
Strip(s) == RStrip(LStrip(s))

\* re.sub(r"[^A-Za-z0-9\.\-\_]", "", s): the characters of the class, in order.
KeepTickerChars(s) == SelectSeq(s, IsTickerChar)

\* normalize_ticker without .upper().
normalize_tickerNoUpper(s) == KeepTickerChars(Strip(s))

normalize_ticker(s) == UpperStr(KeepTickerChars(Strip(s)))

\* Python's order on str: by code point, a proper prefix first.
RECURSIVE StrLess(_, _)
StrLess(a, b) ==
    IF b = <<>> THEN FALSE
    ELSE IF a = <<>> THEN TRUE
    ELSE IF Head(a) # Head(b) THEN Ord(Head(a)) < Ord(Head(b))
    ELSE StrLess(Tail(a), Tail(b))

\* sorted(cur) for a set of strings.
RECURSIVE sorted(_)
sorted(S) ==
    IF S = {} THEN <<>>
    ELSE LET m == CHOOSE x \in S : \A y \in S \ {x} : StrLess(x, y)
         IN <<m>> \o sorted(S \ {m})

\* The index of the first whitespace character of s from i on, or Len(s) + 1.
RECURSIVE FirstSpace(_, _)
FirstSpace(s, i) == IF i > Len(s) \/ IsSpace(s[i]) THEN i ELSE FirstSpace(s, i + 1)

\* str.split(maxsplit=1) of a stripped string: the first word and, when there
\* is one, the rest after the run of whitespace that ends the word.
SplitFirst(s) ==
    LET k == FirstSpace(s, 1)
    IN IF s = <<>> THEN <<>>
       ELSE IF k > Len(s) THEN <<s>>
       ELSE <<SubSeq(s, 1, k - 1), LStrip(SubSeq(s, k, Len(s)))>>

\* The separators [,\s] of re.split in parse_cmd.
IsListSep(c) == c = "," \/ IsSpace(c)

RECURSIVE FirstListSep(_, _)
FirstListSep(s, i) == IF i > Len(s) \/ IsListSep(s[i]) THEN i ELSE FirstListSep(s, i + 1)

RECURSIVE FirstNotListSep(_, _)
FirstNotListSep(s, i) == IF i > Len(s) \/ ~IsListSep(s[i]) THEN i ELSE FirstNotListSep(s, i + 1)

\* re.split(r"[,\s]+", args): the pieces between the runs of separators (an
\* empty piece before a leading run and after a trailing one).
RECURSIVE ReSplit(_)
ReSplit(s) ==
    LET k == FirstListSep(s, 1)
        e == FirstNotListSep(s, k)
    IN IF k > Len(s) THEN <<s>>
       ELSE <<SubSeq(s, 1, k - 1)>> \o ReSplit(SubSeq(s, e, Len(s)))

NonEmpty(t) == t # <<>>

MapNormalize(raw) == [i \in 1..Len(raw) |-> normalize_ticker(raw[i])]

\* [normalize_ticker(x) for x in raw if normalize_ticker(x)]
TickerTokens(args) ==
    IF args = <<>> THEN <<>> ELSE SelectSeq(MapNormalize(ReSplit(args)), NonEmpty)

NoCmd == <<>>

\* parse_cmd: cmd is NoCmd for None (a text that is no command).
parse_cmd(text) ==
    LET t == Strip(text)
        parts == SplitFirst(t)
        args == IF Len(parts) > 1 THEN Strip(parts[2]) ELSE <<>>
    IN IF t = <<>> \/ Head(t) # "/"
       THEN [cmd |-> NoCmd, args |-> <<>>, tickers |-> <<>>]
       ELSE [cmd |-> LowerStr(parts[1]), args |-> args, tickers |-> TickerTokens(args)]

\* ------------------------------------------------------------ configuration
NoChat == 0

NoUser == 0

NoDate == 0

\* TELEGRAM_ALLOWED_USER_ID (the environment sets it; 7 stands for its value),
\* and a sender that is not allowed.
ALLOWED_USER_ID == 7

OtherUser == ALLOWED_USER_ID + 1

\* The chats messages come from; TELEGRAM_FORCE_CHAT_ID is unset (NoChat) or
\* one of them.
ChatIds == {101, 202}

ForceChatChoices == {NoChat, 101}

\* ------------------------------------------------------------------- state
\* A dict as the set of its <<key, value>> items.
Keys(d) == {kv[1] : kv \in d}

Get(d, k) == (CHOOSE kv \in d : kv[1] = k)[2]

Put(d, k, v) == {kv \in d : kv[1] # k} \cup {<<k, v>>}

Drop(d, k) == {kv \in d : kv[1] # k}

\* ", ".join(list)
RECURSIVE Join(_)
Join(list) ==
    IF list = <<>> THEN <<>>
    ELSE IF Len(list) = 1 THEN list[1]
    ELSE list[1] \o <<",", " ">> \o Join(Tail(list))

EmptyMarker == <<"(", "e", "m", "p", "t", "y", ")">>

NoReply == [to |-> NoChat, head |-> "", body |-> <<>>]

Reply(chat, head, body) == [to |-> chat, head |-> head, body |-> body]

UsageName == "Usage: /name TICKER NAME"

UsageUnname == "Usage: /unname TICKER"

C_start == <<"/", "s", "t", "a", "r", "t">>

C_list == <<"/", "l", "i", "s", "t">>

C_add == <<"/", "a", "d", "d">>

C_del == <<"/", "d", "e", "l">>

C_names == <<"/", "n", "a", "m", "e", "s">>

C_name == <<"/", "n", "a", "m", "e">>

C_unname == <<"/", "u", "n", "n", "a", "m", "e">>

C_test == <<"/", "t", "e", "s", "t">>

\* min in place of max.
WatermarkMin(old, id) == IF id < old THEN id ELSE old

\* state["last_update_id"] = max(state.get("last_update_id", 0), u.get("update_id", 0))
Watermark(old, id) == IF id > old THEN id ELSE old

\* /add: cur = set(tickers); cur.add(t) for each token; tickers = sorted(cur)
AddTickers(cur, tokens) == sorted(Range(cur) \cup Range(tokens))

\* /del that discards the first token only.
DelTickersFirst(cur, tokens) ==
    sorted(Range(cur) \ (IF tokens = <<>> THEN {} ELSE {tokens[1]}))

\* /del: cur = set(tickers); cur.discard(t) for each token; tickers = sorted(cur)
DelTickers(cur, tokens) == sorted(Range(cur) \ Range(tokens))

\* [f"{k}={v}" for k, v in sorted(names.items())]
NameItems(d) == LET ks == sorted(Keys(d))
                IN [i \in 1..Len(ks) |-> ks[i] \o <<"=">> \o Get(d, ks[i])]

\* The /unname loop: the tokens that are keys of names, each once, in the
\* order of the command (a key is gone after its first removal).
RECURSIVE Removed(_, _)
Removed(d, tokens) ==
    IF tokens = <<>> THEN <<>>
    ELSE IF Head(tokens) \in Keys(d)
         THEN <<Head(tokens)>> \o Removed(Drop(d, Head(tokens)), Tail(tokens))
         ELSE Removed(d, Tail(tokens))

RECURSIVE DropAll(_, _)
DropAll(d, tokens) ==
    IF tokens = <<>> THEN d ELSE DropAll(Drop(d, Head(tokens)), Tail(tokens))

\* The /name branch without the check of the ticker and the display text.
CmdNameNoCheck(st, chat, args) ==
    LET parts2 == SplitFirst(args)
        t == normalize_ticker(parts2[1])
        name == Strip(parts2[2])
        names == IF st.names.is_dict THEN st.names.d ELSE {}
    IN IF args = <<>> \/ Len(parts2) < 2
       THEN [state |-> st, reply |-> Reply(chat, UsageName, <<>>)]
       ELSE [state |-> [st EXCEPT !.names = [is_dict |-> TRUE, d |-> Put(names, t, name)]],
             reply |-> Reply(chat, "OK: ", t \o <<" ", "-", ">", " ">> \o name)]

\* The /name branch of handle_updates.
CmdName(st, chat, args) ==
    LET parts2 == SplitFirst(args)
        t == normalize_ticker(parts2[1])
        name == Strip(parts2[2])
        names == IF st.names.is_dict THEN st.names.d ELSE {}
    IN IF args = <<>> \/ Len(parts2) < 2
       THEN [state |-> st, reply |-> Reply(chat, UsageName, <<>>)]
       ELSE IF t = <<>> \/ name = <<>>
       THEN [state |-> st, reply |-> Reply(chat, UsageName, <<>>)]
       ELSE [state |-> [st EXCEPT !.names = [is_dict |-> TRUE, d |-> Put(names, t, name)]],
             reply |-> Reply(chat, "OK: ", t \o <<" ", "-", ">", " ">> \o name)]

\* The /unname branch with a reply that lists every token of the command.
CmdUnnameEcho(st, chat, tickers) ==
    IF tickers = <<>>
    THEN [state |-> st, reply |-> Reply(chat, UsageUnname, <<>>)]
    ELSE IF ~st.names.is_dict \/ st.names.d = {}
    THEN [state |-> st, reply |-> Reply(chat, "Names: ", EmptyMarker)]
    ELSE [state |-> [st EXCEPT !.names.d = DropAll(st.names.d, tickers)],
          reply |-> Reply(chat, "Removed: ", Join(tickers))]

\* The /unname branch of handle_updates.
CmdUnname(st, chat, tickers) ==
    LET removed == Removed(st.names.d, tickers)
    IN IF tickers = <<>>
       THEN [state |-> st, reply |-> Reply(chat, UsageUnname, <<>>)]
       ELSE IF ~st.names.is_dict \/ st.names.d = {}
       THEN [state |-> st, reply |-> Reply(chat, "Names: ", EmptyMarker)]
       ELSE [state |-> [st EXCEPT !.names.d = DropAll(st.names.d, tickers)],
             reply |-> IF removed # <<>>
                       THEN Reply(chat, "Removed: ", Join(removed))
                       ELSE Reply(chat, "No matches.", <<>>)]

\* The command branches of the loop body, for an authorized message: the state
\* as mutated before the branch's tg_send, and the reply that tg_send is given.
Command(st, chat, p) ==
    IF p.cmd = C_start
    THEN [state |-> st, reply |-> Reply(chat, "OK. /list, /add TICKER, /del TICKER", <<>>)]
    ELSE IF p.cmd = C_list
    THEN [state |-> st,
          reply |-> Reply(chat, "Tickers: ",
                          IF st.tickers # <<>> THEN Join(st.tickers) ELSE EmptyMarker)]
    ELSE IF p.cmd = C_add
    THEN LET new_list == AddTickers(st.tickers, p.tickers)
         IN [state |-> [st EXCEPT !.tickers = new_list],
             reply |-> Reply(chat, "Updated: ", Join(new_list))]
    ELSE IF p.cmd = C_del
    THEN LET new_list == DelTickers(st.tickers, p.tickers)
         IN [state |-> [st EXCEPT !.tickers = new_list],
             reply |-> Reply(chat, "Updated: ",
                             IF new_list # <<>> THEN Join(new_list) ELSE EmptyMarker)]
    ELSE IF p.cmd = C_names
    THEN [state |-> st,
          reply |-> IF ~st.names.is_dict \/ st.names.d = {}
                    THEN Reply(chat, "Names: ", EmptyMarker)
                    ELSE Reply(chat, "Names: ", Join(NameItems(st.names.d)))]
    ELSE IF p.cmd = C_name THEN CmdName(st, chat, p.args)
    ELSE IF p.cmd = C_unname THEN CmdUnname(st, chat, p.tickers)
    ELSE IF p.cmd = C_test
    THEN [state |-> [st EXCEPT !.force_report = TRUE],
          reply |-> Reply(chat, "OK. report on next run", <<>>)]
    ELSE [state |-> st, reply |-> NoReply]

\* The loop body without the check of FORCE_CHAT_ID.
AuthorizedNoChatLock(u, forceChat) ==
    /\ u.has_msg
    /\ u.user = ALLOWED_USER_ID

\* Whether the loop body goes on to the commands: the update carries a message,
\* from the allowed user, in the forced chat when one is configured.
Authorized(u, forceChat) ==
    /\ u.has_msg
    /\ u.user = ALLOWED_USER_ID
    /\ ~(forceChat # NoChat /\ u.chat # forceChat)

\* One iteration of the loop of handle_updates on update u.
Handle(st, u, forceChat) ==
    LET s1 == [st EXCEPT !.last_update_id = Watermark(st.last_update_id, u.update_id)]
    IN IF ~Authorized(u, forceChat)
       THEN [state |-> s1, reply |-> NoReply]
       ELSE Command([s1 EXCEPT !.chat_id = u.chat], u.chat, parse_cmd(u.text))

\* ------------------------------------------------------------------ report
NoPx == -1

NoPct == -1000000

\* A series that failed to load is ok = FALSE; its closes are oldest first.
Series(ok, closes) == [ok |-> ok, closes |-> closes]

\* A row of the quote endpoint; a field that is missing is NoPx.
Row(pc, rp, post) ==
    [regularMarketPreviousClose |-> pc, regularMarketPrice |-> rp, postMarketPrice |-> post]

NoRow == Row(NoPx, NoPx, NoPx)

\* get_close_and_prev_close_yfinance: <<close, prev_close>>, or <<>> when it raises.
get_close_and_prev_close_yfinance(daily) ==
    IF ~daily.ok \/ Len(daily.closes) < 2
    THEN <<>>
    ELSE <<daily.closes[Len(daily.closes)], daily.closes[Len(daily.closes) - 1]>>

\* get_extended_last_yfinance: the last close, or NoPx when it raises.
get_extended_last_yfinance(intra) ==
    IF ~intra.ok \/ intra.closes = <<>> THEN NoPx ELSE intra.closes[Len(intra.closes)]

\* What stands for the ZeroDivisionError of a / b with b = 0.
DivError == -2000000

\* (a / b - 1.0) * 100.0 as formatted by +.1f: the nearest tenth of a percent.
Pct(a, b) == IF b = 0 THEN DivError ELSE (2000 * (a - b) + b) \div (2 * b)

\* The regular session with a missing snapshot field read as 0.
RegularZeroDefault(src, q) ==
    LET d == get_close_and_prev_close_yfinance(src.daily)
        or0(v) == IF v = NoPx THEN 0 ELSE v
    IN IF d # <<>> THEN [close |-> d[1], prev_close |-> d[2]]
       ELSE [close |-> or0(q.regularMarketPrice),
             prev_close |-> or0(q.regularMarketPreviousClose)]

\* The close and previous close that build_report settles on for one symbol.
Regular(src, q) ==
    LET d == get_close_and_prev_close_yfinance(src.daily)
    IN IF d # <<>> THEN [close |-> d[1], prev_close |-> d[2]]
       ELSE IF q.regularMarketPreviousClose # NoPx /\ q.regularMarketPrice # NoPx
       THEN [close |-> q.regularMarketPrice, prev_close |-> q.regularMarketPreviousClose]
       ELSE [close |-> NoPx, prev_close |-> NoPx]

\* The extended-hours price falling back to the regular price of the snapshot.
ExtendedFromRegular(src, q) ==
    LET x == get_extended_last_yfinance(src.intra)
    IN IF x # NoPx THEN x
       ELSE IF q.postMarketPrice # NoPx THEN q.postMarketPrice
       ELSE q.regularMarketPrice

\* The extended-hours price that build_report settles on for one symbol.
Extended(src, q) ==
    LET x == get_extended_last_yfinance(src.intra)
    IN IF x # NoPx THEN x ELSE q.postMarketPrice

Line(name, kind, close_pct, after_pct) ==
    [name |-> name, kind |-> kind, close_pct |-> close_pct, after_pct |-> after_pct]

\* The line of one symbol without the checks for a zero divisor.
ReportLineNoZeroCheck(name, close, prev_close, ext_px) ==
    IF close = NoPx \/ prev_close = NoPx
    THEN IF ext_px # NoPx /\ close # NoPx
         THEN Line(name, "after_only", NoPct, Pct(ext_px, close))
         ELSE Line(name, "insufficient", NoPct, NoPct)
    ELSE IF ext_px # NoPx
         THEN Line(name, "close_and_after", Pct(close, prev_close), Pct(ext_px, close))
         ELSE Line(name, "close", Pct(close, prev_close), NoPct)

\* The line of one symbol: step 3 of the loop of build_report.
ReportLine(name, close, prev_close, ext_px) ==
    IF close = NoPx \/ prev_close = NoPx \/ prev_close = 0
    THEN IF ext_px # NoPx /\ close # NoPx /\ close # 0
         THEN Line(name, "after_only", NoPct, Pct(ext_px, close))
         ELSE Line(name, "insufficient", NoPct, NoPct)
    ELSE IF ext_px # NoPx /\ close # 0
         THEN Line(name, "close_and_after", Pct(close, prev_close), Pct(ext_px, close))
         ELSE Line(name, "close", Pct(close, prev_close), NoPct)

\* The tickers of the state as build_report reads them.
ReportTickers(st) ==
    SelectSeq([i \in 1..Len(st.tickers) |-> normalize_ticker(st.tickers[i])], NonEmpty)

\* quote_map.get(sym.upper(), {}): the row of sym, NoRow when yahoo_quote
\* raised or returned no row for it.
QuoteRow(mkt, sym) ==
    IF mkt.quote_ok /\ sym \in DOMAIN mkt.rows THEN mkt.rows[sym] ELSE NoRow

\* build_report leaving out the tickers it has no data for.
build_reportSkip(st, mkt) ==
    LET tickers == ReportTickers(st)
        names_map == IF st.names.is_dict THEN st.names.d ELSE {}
        line(sym) ==
            LET name == IF sym \in Keys(names_map) THEN Get(names_map, sym) ELSE sym
                r == Regular(mkt.of[sym], QuoteRow(mkt, sym))
            IN ReportLine(name, r.close, r.prev_close, Extended(mkt.of[sym], QuoteRow(mkt, sym)))
    IN IF tickers = <<>>
       THEN <<Line(<<>>, "no_tickers", NoPct, NoPct)>>
       ELSE <<Line(<<>>, "header", NoPct, NoPct)>>
            \o SelectSeq([i \in 1..Len(tickers) |-> line(tickers[i])],
                         LAMBDA l : l.kind # "insufficient")

\* build_report on a market: mkt.quote_ok is whether yahoo_quote returned,
\* mkt.rows its rows by symbol, mkt.of the two yfinance series of each symbol.
build_report(st, mkt) ==
    LET tickers == ReportTickers(st)
        names_map == IF st.names.is_dict THEN st.names.d ELSE {}
        line(sym) ==
            LET name == IF sym \in Keys(names_map) THEN Get(names_map, sym) ELSE sym
                r == Regular(mkt.of[sym], QuoteRow(mkt, sym))
            IN ReportLine(name, r.close, r.prev_close, Extended(mkt.of[sym], QuoteRow(mkt, sym)))
    IN IF tickers = <<>>
       THEN <<Line(<<>>, "no_tickers", NoPct, NoPct)>>
       ELSE <<Line(<<>>, "header", NoPct, NoPct)>>
            \o [i \in 1..Len(tickers) |-> line(tickers[i])]

\* The locals close, prev_close and ext_px of build_report at the end of
\* steps 1 and 2 of each iteration of its loop, in the order of the loop.
LoopLocals(st, mkt) ==
    LET tickers == ReportTickers(st)
    IN [i \in 1..Len(tickers) |->
            LET r == Regular(mkt.of[tickers[i]], QuoteRow(mkt, tickers[i]))
            IN [sym |-> tickers[i], close |-> r.close, prev_close |-> r.prev_close,
                ext_px |-> Extended(mkt.of[tickers[i]], QuoteRow(mkt, tickers[i]))]]

\* in_send_window_kst with a window that ends before minute 45.
in_send_window_kstOpen(hour, minute) ==
    IF hour # 6 THEN FALSE ELSE 30 <= minute /\ minute < 45

\* in_send_window_kst
in_send_window_kst(hour, minute) ==
    IF hour # 6 THEN FALSE ELSE 30 <= minute /\ minute <= 45

\* ------------------------------------------------------------------ inputs
\* The message texts that arrive.
T_start == <<"/", "s", "t", "a", "r", "t">>

T_list == <<"/", "l", "i", "s", "t">>

T_add_b == <<"/", "a", "d", "d", " ", "b">>

T_ADD_Ab == <<" ", "/", "A", "D", "D", " ", " ", "A", ",", " ", "b", "$", ",">>

T_add_none == <<"/", "a", "d", "d", " ", "$">>

T_del_b == <<"/", "d", "e", "l", " ", "b">>

T_del_Ab == <<"/", "d", "e", "l", " ", "A", ",", " ", "b", "$", ",">>

T_names == <<"/", "n", "a", "m", "e", "s">>

T_name_ax == <<"/", "n", "a", "m", "e", " ", "a", " ", " ", "x", " ", "y">>

T_name_a == <<"/", "n", "a", "m", "e", " ", "a">>

T_unname_a == <<"/", "u", "n", "n", "a", "m", "e", " ", "a", " ", "b">>

T_test == <<"/", "t", "e", "s", "t">>

T_hi == <<"h", "i">>

Texts == {T_start, T_list, T_add_b, T_ADD_Ab, T_add_none, T_del_b, T_del_Ab, T_names,
          T_name_ax, T_name_a, T_unname_a, T_test, T_hi}

Msg(user, chat, text) == [has_msg |-> TRUE, user |-> user, chat |-> chat, text |-> text]

\* An update that carries neither message nor edited_message.
NoMsg == [has_msg |-> FALSE, user |-> NoUser, chat |-> NoChat, text |-> <<>>]

\* What an update carries besides its id: every text from the allowed user in
\* chat 101, one from another user, one from the allowed user in chat 202, and
\* an update without a message.
CmdPayloads ==
    {Msg(ALLOWED_USER_ID, 101, t) : t \in Texts}
    \cup {Msg(OtherUser, 101, T_ADD_Ab), Msg(ALLOWED_USER_ID, 202, T_ADD_Ab), NoMsg}

\* The updates of the runs that follow whole invocations, failures included.
Payloads ==
    {Msg(ALLOWED_USER_ID, 101, T_add_b), Msg(ALLOWED_USER_ID, 101, T_list),
     Msg(OtherUser, 101, T_ADD_Ab)}

WithId(p, id) ==
    [update_id |-> id, has_msg |-> p.has_msg, user |-> p.user, chat |-> p.chat, text |-> p.text]

\* The symbols that can be on the watchlist.
Symbols == {<<"A">>, <<"B">>}

\* The times of day the scheduler runs at, as <<hour, minute>>, in order.
DayTimes == << <<6, 29>>, <<6, 45>>, <<7, 30>> >>

\* The markets a report is built on: every source fails, or every source answers.
SrcDown == [daily |-> Series(FALSE, <<>>), intra |-> Series(FALSE, <<>>)]

SrcUp == [daily |-> Series(TRUE, <<90, 100>>), intra |-> Series(TRUE, <<95>>)]

Markets ==
    {[quote_ok |-> FALSE, rows |-> [s \in Symbols |-> NoRow], of |-> [s \in Symbols |-> SrcDown]],
     [quote_ok |-> TRUE, rows |-> [s \in Symbols |-> NoRow], of |-> [s \in Symbols |-> SrcUp]]}

NoNames == [is_dict |-> FALSE, d |-> {}]

\* The state.json the first invocation finds.
InitStates(chats, watchlists) ==
    {[last_update_id |-> 0, chat_id |-> c, tickers |-> t, names |-> NoNames,
      force_report |-> FALSE, last_sent_kst_date |-> NoDate]
        : c \in chats, t \in watchlists}

\* What the quote endpoint can say of a symbol: each field there or missing,
\* the two regular prices possibly 0.
RowChoices ==
    {Row(pc0, rp, post) : pc0 \in {NoPx, 0, 80}, rp \in {NoPx, 0, 100}, post \in {NoPx, 105}}

\* The daily series: it fails, has one point, or has two or more, possibly 0.
DailyChoices ==
    {Series(FALSE, <<>>), Series(TRUE, <<100>>), Series(TRUE, <<90, 100>>),
     Series(TRUE, <<0, 100>>), Series(TRUE, <<90, 0>>), Series(TRUE, <<100, 90, 120>>)}

\* The intraday series: it fails, is empty, or has points.
IntraChoices ==
    {Series(FALSE, <<>>), Series(TRUE, <<>>), Series(TRUE, <<95>>), Series(TRUE, <<95, 110>>)}

SrcThin == [daily |-> Series(TRUE, <<100>>), intra |-> Series(TRUE, <<>>)]

\* The rows of a quote answer: A has any row or none, B one row or none.
RowMaps ==
    {<<>>, <<"B">> :> Row(80, 100, 105)}
    \cup {<<"A">> :> r : r \in RowChoices}
    \cup {(<<"A">> :> r) @@ (<<"B">> :> Row(80, 100, 105)) : r \in RowChoices}

\* The markets of the report alone: every combination of the three sources
\* for A, beside a B whose sources all fail, all answer, or answer too little.
ReportMarkets ==
    {[quote_ok |-> k, rows |-> rows,
      of |-> (<<"A">> :> [daily |-> d, intra |-> x]) @@ (<<"B">> :> b)]
        : k \in BOOLEAN, rows \in RowMaps, d \in DailyChoices, x \in IntraChoices,
          b \in {SrcDown, SrcUp, SrcThin}}

OneName == [is_dict |-> TRUE, d |-> {<< <<"A">>, <<"x">> >>}]

\* The state.json of the report alone: a chat, any watchlist over the two
\* symbols, with and without an alias.
ReportStates ==
    {[s EXCEPT !.names = n]
        : s \in InitStates({101}, {<<>>, << <<"A">> >>, << <<"B">> >>, << <<"A">>, <<"B">> >>}),
          n \in {NoNames, OneName}}

\* --------------------------------------------------------------- variables
VARIABLES
    persisted,      \* state.json: ok (it parses) and st (its content)
    force_chat_id,  \* FORCE_CHAT_ID
    inbox,          \* the updates the Telegram server holds, oldest first
    last_id,        \* the update_id of the newest update the server was given
    now,            \* the KST clock: date and tod, the time of day <<hour, minute>>
    pc,             \* where main is: "idle" (not running), "loop", "gate", "save"
    force_send,     \* FORCE_SEND == "1" in the environment of this invocation
    loaded,         \* what load_state returned to this invocation
    state,          \* the state dict of main
    state_changed,  \* state_changed of main
    batch,          \* updates of handle_updates
    idx,            \* the position of the loop of handle_updates in batch
    changed,        \* changed of handle_updates
    fetch_failed,   \* tg_get_updates raised in this invocation
    reply,          \* the tg_send of the last loop iteration: m, and sent
    prev_tickers,   \* state["tickers"] before the last loop iteration
    decision,       \* what this invocation did at the send decision
    msg,            \* the report this invocation built, <<>> when none
    market,         \* what the sources answered to build_report: <<mkt>>, <<>> when
                    \* no report was built
    quotes,         \* the locals of the loop of build_report, one entry a ticker
    processed,      \* the update ids a loop iteration ran for, in any invocation
    sent_today,     \* the reports tg_send delivered on the date of now (up to
                    \* SentCap)
    retry_today,    \* the previous invocation ran on the date of now and its
                    \* report send failed
    nochat_today    \* the previous invocation ran on the date of now and had
                    \* no chat to send its report to

vars == <<persisted, force_chat_id, inbox, last_id, now, pc, force_send, loaded, state,
          state_changed, batch, idx, changed, fetch_failed, reply, prev_tickers,
          decision, msg, market, quotes, processed, sent_today, retry_today,
          nochat_today>>

history == <<processed, sent_today>>

InitAt(forceChats, states, times) ==
    /\ persisted \in {[ok |-> TRUE, st |-> s] : s \in states}
    /\ force_chat_id \in forceChats
    /\ inbox = <<>>
    /\ last_id = 0
    /\ now \in {[date |-> 1, tod |-> t] : t \in times}
    /\ pc = "idle"
    /\ force_send = FALSE
    /\ loaded = persisted.st
    /\ state = persisted.st
    /\ state_changed = FALSE
    /\ batch = <<>>
    /\ idx = 1
    /\ changed = FALSE
    /\ fetch_failed = FALSE
    /\ reply = [m |-> NoReply, sent |-> FALSE]
    /\ prev_tickers = <<>>
    /\ decision = "none"
    /\ msg = <<>>
    /\ market = <<>>
    /\ quotes = <<>>
    /\ processed = {}
    /\ sent_today = 0
    /\ retry_today = FALSE
    /\ nochat_today = FALSE

\* At the first of the times the scheduler runs at.
InitFrom(forceChats, states) == InitAt(forceChats, states, {DayTimes[1]})

InitWith(forceChats, chats, watchlists) == InitFrom(forceChats, InitStates(chats, watchlists))

\* Without TELEGRAM_FORCE_CHAT_ID, with or without a chat_id, from an empty
\* watchlist.
Init == InitWith({NoChat}, {NoChat, 101}, {<<>>})

\* With and without TELEGRAM_FORCE_CHAT_ID, without a chat_id, from an empty
\* watchlist or from A.
InitCmd == InitWith(ForceChatChoices, {NoChat}, {<<>>, << <<"A">> >>})

\* ------------------------------------------------------------- environment
\* A new update, carrying p, reaches the server; update ids count up from 1.  The server
\* is asked only at the start of an invocation, so arrivals are taken between
\* invocations.
ArriveFrom(p) ==
    /\ pc = "idle"
    /\ last_id < MaxUpdates
    /\ last_id' = last_id + 1
    /\ inbox' = Append(inbox, WithId(p, last_id + 1))
    /\ UNCHANGED <<persisted, force_chat_id, now, pc, force_send, loaded, state,
                   state_changed, batch, idx, changed, fetch_failed, reply, prev_tickers, decision,
                   msg, market, quotes, processed, sent_today, retry_today, nochat_today>>

Arrive == \E p \in Payloads : ArriveFrom(p)

ArriveCmd == \E p \in CmdPayloads : ArriveFrom(p)

Later(t, u) == t[1] > u[1] \/ (t[1] = u[1] /\ t[2] > u[2])

\* Time passes.  main reads the clock once (datetime.now(KST), line 406), so
\* the clock moves just before that read.
Tick ==
    /\ pc = "gate"
    /\ \/ /\ \E i \in 1..Len(DayTimes) :
                /\ Later(DayTimes[i], now.tod)
                /\ now' = [now EXCEPT !.tod = DayTimes[i]]
          /\ UNCHANGED <<sent_today, retry_today, nochat_today>>
       \/ /\ now.date < MaxDate
          /\ \E i \in 1..Len(DayTimes) : now' = [date |-> now.date + 1, tod |-> DayTimes[i]]
          /\ sent_today' = 0
          /\ retry_today' = FALSE
          /\ nochat_today' = FALSE
    /\ UNCHANGED <<persisted, force_chat_id, inbox, last_id, pc, force_send, loaded, state,
                   state_changed, batch, idx, changed, fetch_failed, reply, prev_tickers, decision,
                   msg, market, quotes, processed>>

\* tg_get_updates(offset): the updates whose id is at least offset, in order.
\* The server forgets the updates below offset.
tg_get_updates(box, offset) == SelectSeq(box, LAMBDA u : u.update_id >= offset)

\* -------------------------------------------------------------------- main
\* main starts: state = load_state(), state_changed = False.
Begin(fs) ==
    /\ force_send' = fs
    /\ loaded' = persisted.st
    /\ state' = persisted.st
    /\ state_changed' = FALSE
    /\ idx' = 1
    /\ changed' = FALSE
    /\ reply' = [m |-> NoReply, sent |-> FALSE]
    /\ prev_tickers' = <<>>
    /\ decision' = "none"
    /\ msg' = <<>>
    /\ market' = <<>>
    /\ quotes' = <<>>

\* load_state raises on a state.json that does not parse: main dies there.
LoadFail ==
    /\ pc = "idle"
    /\ ~persisted.ok
    /\ decision # "load_failed"
    /\ decision' = "load_failed"
    /\ UNCHANGED <<persisted, force_chat_id, inbox, last_id, now, pc, force_send, loaded,
                   state, state_changed, batch, idx, changed, fetch_failed, reply, prev_tickers, msg, market, quotes,
                   processed, sent_today, retry_today, nochat_today>>

\* main loads the state and handle_updates fetches the updates from
\* last_update_id + 1 on; with none it returns False at once.
FetchOk(fs) ==
    /\ pc = "idle"
    /\ persisted.ok
    /\ Begin(fs)
    /\ batch' = tg_get_updates(inbox, persisted.st.last_update_id + 1)
    /\ inbox' = batch'
    /\ fetch_failed' = FALSE
    /\ pc' = IF batch' = <<>> THEN "gate" ELSE "loop"
    /\ UNCHANGED <<persisted, force_chat_id, last_id, now, history, retry_today, nochat_today>>

\* tg_get_updates raises and the exception ends the invocation's work: main
\* goes to its end without the send decision.
FetchFailAbort(fs) ==
    /\ pc = "idle"
    /\ persisted.ok
    /\ Begin(fs)
    /\ batch' = <<>>
    /\ fetch_failed' = TRUE
    /\ pc' = "save"
    /\ UNCHANGED <<persisted, force_chat_id, inbox, last_id, now, history, retry_today, nochat_today>>

\* tg_get_updates raises: main catches it, state_changed stays False.
FetchFail(fs) ==
    /\ pc = "idle"
    /\ persisted.ok
    /\ Begin(fs)
    /\ batch' = <<>>
    /\ fetch_failed' = TRUE
    /\ pc' = "gate"
    /\ UNCHANGED <<persisted, force_chat_id, inbox, last_id, now, history, retry_today, nochat_today>>

\* The loop iteration with changed set by the branches alone, not by the
\* watermark.
HandleOkBranchFlag ==
    /\ pc = "loop"
    /\ LET r == Handle(state, batch[idx], force_chat_id)
           touched == changed \/ r.state.tickers # state.tickers
                              \/ r.state.names # state.names
                              \/ r.state.force_report # state.force_report
       IN /\ state' = r.state
          /\ reply' = [m |-> r.reply, sent |-> r.reply # NoReply]
          /\ changed' = touched
          /\ IF idx = Len(batch)
             THEN pc' = "gate" /\ state_changed' = touched
             ELSE pc' = "loop" /\ state_changed' = state_changed
    /\ prev_tickers' = state.tickers
    /\ idx' = idx + 1
    /\ processed' = processed \cup {batch[idx].update_id}
    /\ UNCHANGED <<persisted, force_chat_id, inbox, last_id, now, force_send, loaded,
                   batch, fetch_failed, decision, msg, market, quotes, sent_today, retry_today, nochat_today>>

\* One loop iteration whose tg_send, if it has one, returns.  After the last
\* update handle_updates returns changed, which main copies to state_changed.
HandleOk ==
    /\ pc = "loop"
    /\ LET r == Handle(state, batch[idx], force_chat_id)
       IN /\ state' = r.state
          /\ reply' = [m |-> r.reply, sent |-> r.reply # NoReply]
    /\ prev_tickers' = state.tickers
    /\ changed' = TRUE
    /\ idx' = idx + 1
    /\ processed' = processed \cup {batch[idx].update_id}
    /\ IF idx = Len(batch)
       THEN pc' = "gate" /\ state_changed' = TRUE
       ELSE pc' = "loop" /\ state_changed' = state_changed
    /\ UNCHANGED <<persisted, force_chat_id, inbox, last_id, now, force_send, loaded,
                   batch, fetch_failed, decision, msg, market, quotes, sent_today, retry_today, nochat_today>>

\* One loop iteration whose tg_send raises: the branch has mutated the state,
\* the exception leaves handle_updates, main catches it and state_changed
\* stays False.
HandleReplyFail ==
    /\ pc = "loop"
    /\ LET r == Handle(state, batch[idx], force_chat_id)
       IN /\ r.reply # NoReply
          /\ state' = r.state
          /\ reply' = [m |-> r.reply, sent |-> FALSE]
    /\ prev_tickers' = state.tickers
    /\ changed' = TRUE
    /\ processed' = processed \cup {batch[idx].update_id}
    /\ pc' = "gate"
    /\ UNCHANGED <<persisted, force_chat_id, inbox, last_id, now, force_send, loaded,
                   state_changed, batch, idx, fetch_failed, decision, msg, market, quotes, sent_today,
                   retry_today, nochat_today>>

\* The send decision with FORCE_SEND bypassing the once-per-day gate too.
SendDecisionForceBypass(st, fs, t, today) ==
    IF ~(fs \/ in_send_window_kst(t[1], t[2])) THEN "not_in_window"
    ELSE IF ~fs /\ st.last_sent_kst_date = today THEN "already_sent"
    ELSE IF st.chat_id = NoChat THEN "no_chat"
    ELSE "send"

\* The send decision with force_report read as FORCE_SEND is.
SendDecisionForceReport(st, fs, t, today) ==
    IF ~(fs \/ st.force_report \/ in_send_window_kst(t[1], t[2])) THEN "not_in_window"
    ELSE IF st.last_sent_kst_date = today THEN "already_sent"
    ELSE IF st.chat_id = NoChat THEN "no_chat"
    ELSE "send"

\* The send decision of main (lines 406-413) at time t of date today.
SendDecision(st, fs, t, today) ==
    IF ~(fs \/ in_send_window_kst(t[1], t[2])) THEN "not_in_window"
    ELSE IF st.last_sent_kst_date = today THEN "already_sent"
    ELSE IF st.chat_id = NoChat THEN "no_chat"
    ELSE "send"

Decide == SendDecision(state, force_send, now.tod, now.date)

\* The skipped report with the date marked as sent when there is no chat.
GateSkipMarksDate ==
    /\ pc = "gate"
    /\ Decide # "send"
    /\ decision' = Decide
    /\ pc' = "save"
    /\ IF Decide = "no_chat"
       THEN /\ state' = [state EXCEPT !.last_sent_kst_date = now.date]
            /\ state_changed' = TRUE
       ELSE UNCHANGED <<state, state_changed>>
    /\ UNCHANGED <<persisted, force_chat_id, inbox, last_id, now, force_send, loaded,
                   batch, idx, changed, fetch_failed, reply, prev_tickers, msg, market, quotes,
                   history, retry_today, nochat_today>>

\* The report is not due, or there is no chat to send it to.
GateSkip ==
    /\ pc = "gate"
    /\ Decide # "send"
    /\ decision' = Decide
    /\ pc' = "save"
    /\ UNCHANGED <<persisted, force_chat_id, inbox, last_id, now, force_send, loaded,
                   state, state_changed, batch, idx, changed, fetch_failed, reply, prev_tickers, msg, market, quotes,
                   history, retry_today, nochat_today>>

\* The report is due, built on mkt and sent: the day is marked as sent.
ReportSendOkOn(mkt) ==
    /\ pc = "gate"
    /\ Decide = "send"
    /\ msg' = build_report(state, mkt)
    /\ market' = <<mkt>>
    /\ quotes' = LoopLocals(state, mkt)
    /\ state' = [state EXCEPT !.last_sent_kst_date = now.date]
    /\ state_changed' = TRUE
    /\ sent_today' = IF sent_today < SentCap THEN sent_today + 1 ELSE sent_today
    /\ decision' = "sent"
    /\ pc' = "save"
    /\ UNCHANGED <<persisted, force_chat_id, inbox, last_id, now, force_send, loaded,
                   batch, idx, changed, fetch_failed, reply, prev_tickers, processed, retry_today, nochat_today>>

ReportSendOk == \E mkt \in Markets : ReportSendOkOn(mkt)

\* The report is due and built on mkt, and its tg_send raises.
ReportSendFailOn(mkt) ==
    /\ pc = "gate"
    /\ Decide = "send"
    /\ msg' = build_report(state, mkt)
    /\ market' = <<mkt>>
    /\ quotes' = LoopLocals(state, mkt)
    /\ decision' = "send_failed"
    /\ pc' = "save"
    /\ UNCHANGED <<persisted, force_chat_id, inbox, last_id, now, force_send, loaded,
                   state, state_changed, batch, idx, changed, fetch_failed, reply, prev_tickers,
                   history, retry_today, nochat_today>>

ReportSendFail == \E mkt \in Markets : ReportSendFailOn(mkt)

\* The process ends and its locals with it; what the next invocation can
\* see is state.json.
Exit ==
    /\ pc' = "idle"
    /\ force_send' = FALSE
    /\ loaded' = persisted'.st
    /\ state' = persisted'.st
    /\ state_changed' = FALSE
    /\ batch' = <<>>
    /\ idx' = 1
    /\ changed' = FALSE
    /\ fetch_failed' = FALSE
    /\ reply' = [m |-> NoReply, sent |-> FALSE]
    /\ prev_tickers' = <<>>
    /\ decision' = "none"
    /\ msg' = <<>>
    /\ market' = <<>>
    /\ quotes' = <<>>
    /\ retry_today' = (decision = "send_failed")
    /\ nochat_today' = (decision = "no_chat")
    /\ UNCHANGED <<force_chat_id, inbox, last_id, now, history>>

\* Nothing changed: main does not call save_state.
NoSave ==
    /\ pc = "save"
    /\ ~state_changed
    /\ persisted' = persisted
    /\ Exit

\* save_state writes the state.
SaveOk ==
    /\ pc = "save"
    /\ state_changed
    /\ persisted' = [ok |-> TRUE, st |-> state]
    /\ Exit

\* save_state raises in open(): state.json is as it was, main dies.
SaveFailOpen ==
    /\ pc = "save"
    /\ state_changed
    /\ persisted' = persisted
    /\ Exit

\* save_state raises in json.dump, after open(..., "w") truncated the file:
\* state.json no longer parses, main dies.
SaveFailWrite ==
    /\ pc = "save"
    /\ state_changed
    /\ persisted' = [persisted EXCEPT !.ok = FALSE]
    /\ Exit

Next ==
    \/ Arrive
    \/ Tick
    \/ LoadFail
    \/ \E fs \in BOOLEAN : FetchOk(fs)
    \/ \E fs \in BOOLEAN : FetchFail(fs)
    \/ HandleOk
    \/ HandleReplyFail
    \/ GateSkip
    \/ ReportSendOk
    \/ ReportSendFail
    \/ NoSave
    \/ SaveOk
    \/ SaveFailOpen
    \/ SaveFailWrite

Spec == Init /\ [][Next]_vars

\* The invocations in which save_state does not fail.
NextSaved ==
    \/ Arrive
    \/ Tick
    \/ \E fs \in BOOLEAN : FetchOk(fs)
    \/ \E fs \in BOOLEAN : FetchFail(fs)
    \/ HandleOk
    \/ HandleReplyFail
    \/ GateSkip
    \/ ReportSendOk
    \/ ReportSendFail
    \/ NoSave
    \/ SaveOk

SpecSaved == Init /\ [][NextSaved]_vars

\* Command handling alone: every text, no failure but a reply's, outside the
\* send window.
NextCmd ==
    \/ ArriveCmd
    \/ FetchOk(FALSE)
    \/ HandleOk
    \/ HandleReplyFail
    \/ GateSkip
    \/ NoSave
    \/ SaveOk

SpecCmd == InitCmd /\ [][NextCmd]_vars

\* ------------------------------------------------------- the report alone
InitReport == InitFrom({NoChat}, ReportStates)

\* The report is built on any of the markets of the report alone.
ReportAloneSendOk ==
    /\ pc = "gate"
    /\ \E mkt \in ReportMarkets : ReportSendOkOn(mkt)

ReportAloneSendFail ==
    /\ pc = "gate"
    /\ \E mkt \in ReportMarkets : ReportSendFailOn(mkt)

\* Forced invocations without updates.
NextReport ==
    \/ FetchOk(TRUE)
    \/ GateSkip
    \/ ReportAloneSendOk
    \/ ReportAloneSendFail
    \/ NoSave
    \/ SaveOk

SpecReport == InitReport /\ [][NextReport]_vars

\* ------------------------------------------------------- the aliases alone
T_name == <<"/", "n", "a", "m", "e">>

T_name_bad == <<"/", "n", "a", "m", "e", " ", "$", " ", "x">>

T_unname_b == <<"/", "u", "n", "n", "a", "m", "e", " ", "b">>

\* The texts about aliases, from the allowed user in chat 101.
NamePayloads ==
    {Msg(ALLOWED_USER_ID, 101, t)
        : t \in {T_names, T_name, T_name_a, T_name_bad, T_name_ax, T_unname_a, T_unname_b}}

EmptyNames == [is_dict |-> TRUE, d |-> {}]

\* The state.json of the aliases alone: names missing, empty, or with A.
NameStates ==
    {[s EXCEPT !.names = n] : s \in InitStates({NoChat}, {<<>>}), n \in {NoNames, EmptyNames, OneName}}

InitNames == InitFrom(ForceChatChoices, NameStates)

ArriveNames == \E p \in NamePayloads : ArriveFrom(p)

NextNames ==
    \/ ArriveNames
    \/ FetchOk(FALSE)
    \/ HandleOk
    \/ HandleReplyFail
    \/ GateSkip
    \/ NoSave
    \/ SaveOk

SpecNames == InitNames /\ [][NextNames]_vars

\* ---------------------------------------------------- the send window alone
\* Every minute of the day.
AllTimes == {<<h, m>> : h \in 0..23, m \in 0..59}

\* With a chat, at any minute of the day.
InitWindow == InitAt({NoChat}, InitStates({101}, {<< <<"A">> >>}), AllTimes)

\* Invocations without updates and without FORCE_SEND.
NextWindow ==
    \/ FetchOk(FALSE)
    \/ GateSkip
    \/ ReportSendOk
    \/ ReportSendFail
    \/ NoSave
    \/ SaveOk

SpecWindow == InitWindow /\ [][NextWindow]_vars

\* ------------------------------------------------------------ /test alone
\* Whole invocations, failures included, with /test among the updates.
TestPayloads == {Msg(ALLOWED_USER_ID, 101, T_test), Msg(ALLOWED_USER_ID, 101, T_list)}

ArriveTest == \E p \in TestPayloads : ArriveFrom(p)

NextTest ==
    \/ ArriveTest
    \/ Tick
    \/ LoadFail
    \/ \E fs \in BOOLEAN : FetchOk(fs)
    \/ \E fs \in BOOLEAN : FetchFail(fs)
    \/ HandleOk
    \/ HandleReplyFail
    \/ GateSkip
    \/ ReportSendOk
    \/ ReportSendFail
    \/ NoSave
    \/ SaveOk
    \/ SaveFailOpen
    \/ SaveFailWrite

SpecTest == Init /\ [][NextTest]_vars

\* ------------------------------------------------------------------ claims
\* A step that is one iteration of the loop of handle_updates.
LoopStep == pc = "loop" /\ (idx' # idx \/ pc' # "loop")

\* A step that is the send decision of main, with what follows from it.
GateStep == pc = "gate" /\ pc' = "save"

\* A step that ends an invocation.
ExitStep == pc = "save" /\ pc' = "idle"

InWindowNow == now.tod[1] = 6 /\ now.tod[2] >= 30 /\ now.tod[2] <= 45

\* C1: between invocations, the next fetch offset (last_update_id + 1 of
\* state.json) is greater than the id of every update a loop iteration has
\* already run for, so no processed update is delivered again.
C1_NoRedelivery ==
    (pc = "idle" /\ persisted.ok)
        => \A id \in processed : persisted.st.last_update_id + 1 > id

\* C2: every loop iteration, whatever the update, leaves last_update_id at the
\* maximum of its old value and the update's id, and the last_update_id of
\* state.json never decreases.
C2_WatermarkMonotone ==
    [][/\ LoopStep =>
            LET id == batch[idx].update_id
                old == state.last_update_id
            IN /\ state'.last_update_id = IF id > old THEN id ELSE old
               /\ state'.last_update_id >= old
       /\ (persisted.ok /\ persisted'.ok)
            => persisted'.st.last_update_id >= persisted.st.last_update_id]_vars

\* An update from a sender that is not allowed has moved last_update_id from
\* the 1 of state.json to 2.
C2_Witness ==
    /\ pc = "gate"
    /\ idx > 1
    /\ batch[idx - 1].user = OtherUser
    /\ persisted.st.last_update_id = 1
    /\ state.last_update_id = 2

\* C3: when last_sent_kst_date is today's date at the send decision, no report
\* is built or sent, in the window or under FORCE_SEND alike.
C3_OncePerDayGate ==
    [][(GateStep /\ state.last_sent_kst_date = now.date) =>
            /\ msg' = <<>>
            /\ sent_today' = sent_today
            /\ decision' \in {"not_in_window", "already_sent"}
            /\ (force_send \/ InWindowNow) => decision' = "already_sent"]_vars

\* Under FORCE_SEND, outside the window, the decision found the day already sent.
C3_Witness ==
    /\ pc = "save"
    /\ decision = "already_sent"
    /\ force_send
    /\ ~InWindowNow
    /\ state.last_sent_kst_date = now.date
    /\ state.chat_id # NoChat

\* C4: on any one date at most one report is sent successfully.
C4_AtMostOneSendPerDate == sent_today <= 1

\* C5: the send decision sets last_sent_kst_date to today exactly when the
\* report's tg_send succeeds, and after a failed report send the next
\* invocation on that date, in the window or forced, attempts the send again.
C5_SentDateAndRetry ==
    [][/\ GateStep =>
            /\ (decision' = "sent") <=> (state'.last_sent_kst_date # state.last_sent_kst_date)
            /\ decision' = "sent" => state'.last_sent_kst_date = now.date
       /\ (GateStep /\ retry_today /\ (force_send \/ InWindowNow))
            => decision' \in {"sent", "send_failed"}]_vars

\* The state after the loop of handle_updates has run for every update of us.
RECURSIVE HandleAll(_, _, _)
HandleAll(st, us, forceChat) ==
    IF us = <<>> THEN st
    ELSE HandleAll(Handle(st, Head(us), forceChat).state, Tail(us), forceChat)

\* C6: state.json changes only in the last step of an invocation, and after
\* it is either what was loaded or what was loaded with the effects of every
\* fetched update (and the sent date if the report was sent).
C6_AllOrNothing ==
    [][/\ persisted' # persisted => ExitStep
       /\ (ExitStep /\ persisted'.ok) =>
            LET full == HandleAll(loaded, batch, force_chat_id)
            IN \/ persisted'.st = loaded
               \/ persisted'.st = IF decision = "sent"
                                  THEN [full EXCEPT !.last_sent_kst_date = now.date]
                                  ELSE full]_vars

\* An update that the loop ignores: it carries a message whose sender is not
\* the allowed user, or whose chat is not the configured FORCE_CHAT_ID.
Rejected(u) ==
    /\ u.has_msg
    /\ \/ u.user # ALLOWED_USER_ID
       \/ force_chat_id # NoChat /\ u.chat # force_chat_id

\* C7: a loop iteration for a rejected update sends no reply and changes no
\* field of the state but last_update_id.
C7_RejectedIgnored ==
    [][(LoopStep /\ Rejected(batch[idx])) =>
            /\ reply'.m = NoReply
            /\ ~reply'.sent
            /\ state' = [state EXCEPT !.last_update_id = state'.last_update_id]]_vars

\* A message of the allowed user in a chat that is not the forced one was
\* passed over: the watermark is at its id and no chat was learned.
C7_Witness ==
    /\ pc \in {"loop", "gate"}
    /\ idx > 1
    /\ batch[idx - 1].user = ALLOWED_USER_ID
    /\ batch[idx - 1].chat = 202
    /\ force_chat_id = 101
    /\ state.last_update_id = batch[idx - 1].update_id
    /\ state.chat_id = NoChat
    /\ reply.m = NoReply

\* Update u is accepted and is command cmd.
Accepted(u, cmd) == ~Rejected(u) /\ u.has_msg /\ parse_cmd(u.text).cmd = cmd

\* The loop is at a /del whose tokens are those of the /add just before it.
DelAfterAdd ==
    /\ LoopStep
    /\ idx > 1
    /\ Accepted(batch[idx - 1], C_add)
    /\ Accepted(batch[idx], C_del)
    /\ parse_cmd(batch[idx - 1].text).tickers = parse_cmd(batch[idx].text).tickers

\* C8 as stated: after /add S and /del S the watchlist is the sorted content it
\* had before the /add.
C8_AddThenDelRestores ==
    [][DelAfterAdd => state'.tickers = sorted(Range(prev_tickers))]_vars

\* C8 as amended: after /add S and /del S the watchlist is the sorted content
\* it had before the /add without the tokens of S, which is the prior content
\* exactly when no token of S was on the watchlist.
C8_AddThenDelRemoves ==
    [][DelAfterAdd =>
            LET S == Range(parse_cmd(batch[idx].text).tickers)
                W == Range(prev_tickers)
            IN /\ state'.tickers = sorted(W \ S)
               /\ (state'.tickers = sorted(W)) <=> (W \cap S = {})]_vars

\* /add b then /del b on the watchlist A gave A back.
C8_Witness ==
    /\ pc = "gate"
    /\ idx = 3
    /\ Accepted(batch[1], C_add)
    /\ Accepted(batch[2], C_del)
    /\ parse_cmd(batch[1].text).tickers = << <<"B">> >>
    /\ parse_cmd(batch[2].text).tickers = << <<"B">> >>
    /\ loaded.tickers = << <<"A">> >>
    /\ state.tickers = << <<"A">> >>
    /\ reply.sent

\* A non-empty string over [A-Z0-9._-].
IsSymbol(t) ==
    /\ t # <<>>
    /\ \A i \in 1..Len(t) : t[i] \in Range(Uppers) \cup Range(Digits) \cup {".", "_", "-"}

\* Strictly ascending, hence without duplicates.
Ascending(list) == \A i \in 1..(Len(list) - 1) : StrLess(list[i], list[i + 1])

WellFormed(list) == Ascending(list) /\ \A i \in 1..Len(list) : IsSymbol(list[i])

\* C9: the watchlist, in memory and in state.json, stays sorted ascending,
\* free of duplicates and made of non-empty strings over [A-Z0-9._-]; an /add
\* of tickers that are all present leaves it as it is.
C9_WatchlistWellFormed ==
    /\ WellFormed(state.tickers) /\ WellFormed(persisted.st.tickers)
    /\ [][WellFormed(state'.tickers) /\ WellFormed(persisted'.st.tickers)]_vars
    /\ [][(/\ LoopStep
           /\ Accepted(batch[idx], C_add)
           /\ Range(parse_cmd(batch[idx].text).tickers) \subseteq Range(state.tickers))
            => state'.tickers = state.tickers]_vars

\* "/ADD  A, b$," on the watchlist A gave A, B.
C9_Witness ==
    /\ pc \in {"loop", "gate"}
    /\ idx > 1
    /\ Accepted(batch[idx - 1], C_add)
    /\ batch[idx - 1].text = T_ADD_Ab
    /\ prev_tickers = << <<"A">> >>
    /\ state.tickers = << <<"A">>, <<"B">> >>

\* C10: when tg_get_updates raises, main goes on to the send decision with
\* the state as loaded, and the report, when due and there is a chat to send
\* it to, is built from that state and sent.
C10_FetchFailureStillReports ==
    /\ [][(fetch_failed' /\ pc' = "gate")
            => (state' = loaded' /\ ~state_changed' /\ batch' = <<>>)]_vars
    /\ [][(pc = "idle" /\ fetch_failed') => pc' = "gate"]_vars
    /\ [][(GateStep /\ fetch_failed) =>
            LET due == /\ force_send \/ InWindowNow
                       /\ loaded.last_sent_kst_date # now.date
                       /\ loaded.chat_id # NoChat
            IN /\ due => /\ decision' \in {"sent", "send_failed"}
                         /\ \E mkt \in Markets : msg' = build_report(loaded, mkt)
               /\ ~due => /\ decision' \notin {"sent", "send_failed"}
                          /\ msg' = <<>>]_vars

\* After a failed fetch the report of a watchlist with a ticker was sent.
C10_Witness ==
    /\ pc = "save"
    /\ fetch_failed
    /\ decision = "sent"
    /\ Len(msg) > 1
    /\ loaded.tickers # <<>>

\* The name a line shows for sym: its alias when it has one.
DisplayName(st, sym) ==
    IF st.names.is_dict /\ sym \in Keys(st.names.d) THEN Get(st.names.d, sym) ELSE sym

\* A report was built in this invocation, on market[1].
Built == pc = "save" /\ market # <<>>

\* The row the quote endpoint gave for sym, if it gave one.
HasRow(mkt, sym) == mkt.quote_ok /\ sym \in DOMAIN mkt.rows

\* None of the three sources has anything for sym.
NoData(mkt, sym) ==
    /\ ~mkt.of[sym].daily.ok \/ Len(mkt.of[sym].daily.closes) < 2
    /\ ~mkt.of[sym].intra.ok \/ mkt.of[sym].intra.closes = <<>>
    /\ ~HasRow(mkt, sym) \/ mkt.rows[sym] = NoRow

TickerKinds == {"after_only", "insufficient", "close_and_after", "close"}

\* C11: for a non-empty watchlist the report is the header line followed by
\* exactly one line per watchlist ticker, in watchlist order, whatever each
\* of the three sources did for each ticker; a ticker none of the sources has
\* anything for gets the insufficient-data line.
C11_OneLinePerTicker ==
    (Built /\ state.tickers # <<>>) =>
        /\ Len(msg) = Len(state.tickers) + 1
        /\ msg[1].kind = "header"
        /\ \A i \in 1..Len(state.tickers) :
              /\ msg[i + 1].name = DisplayName(state, state.tickers[i])
              /\ msg[i + 1].kind \in TickerKinds
              /\ NoData(market[1], state.tickers[i]) => msg[i + 1].kind = "insufficient"

\* A report on A and B where A has no data at all and B has all of it.
C11_Witness ==
    /\ Built
    /\ state.tickers = << <<"A">>, <<"B">> >>
    /\ NoData(market[1], <<"A">>)
    /\ Len(msg) = 3
    /\ msg[2].kind = "insufficient"
    /\ msg[3].kind = "close_and_after"

\* The daily series of sym has the two points the regular session needs.
DailyGood(mkt, sym) == mkt.of[sym].daily.ok /\ Len(mkt.of[sym].daily.closes) >= 2

\* The intraday series of sym has a last price.
IntraGood(mkt, sym) == mkt.of[sym].intra.ok /\ mkt.of[sym].intra.closes # <<>>

\* C12: the close and previous close of a ticker are the two most recent
\* closes of the daily series when it has at least two points; otherwise the
\* current price and previous close of the snapshot, and only when the
\* snapshot has both; otherwise both are absent, not zero, and the line
\* carries no close percentage.
C12_RegularChain ==
    Built =>
        \A i \in 1..Len(quotes) :
            LET mkt == market[1]
                sym == quotes[i].sym
                d == mkt.of[sym].daily.closes
            IN IF DailyGood(mkt, sym)
               THEN quotes[i].close = d[Len(d)] /\ quotes[i].prev_close = d[Len(d) - 1]
               ELSE IF /\ HasRow(mkt, sym)
                       /\ mkt.rows[sym].regularMarketPreviousClose # NoPx
                       /\ mkt.rows[sym].regularMarketPrice # NoPx
               THEN /\ quotes[i].close = mkt.rows[sym].regularMarketPrice
                    /\ quotes[i].prev_close = mkt.rows[sym].regularMarketPreviousClose
               ELSE /\ quotes[i].close = NoPx
                    /\ quotes[i].prev_close = NoPx
                    /\ msg[i + 1].close_pct = NoPct

\* The daily series of A has one point and the snapshot only its previous
\* close: close and previous close are both absent.
C12_Witness ==
    /\ Built
    /\ state.tickers = << <<"A">> >>
    /\ market[1].of[<<"A">>].daily = Series(TRUE, <<100>>)
    /\ HasRow(market[1], <<"A">>)
    /\ market[1].rows[<<"A">>].regularMarketPreviousClose = 80
    /\ market[1].rows[<<"A">>].regularMarketPrice = NoPx
    /\ quotes[1].close = NoPx
    /\ quotes[1].prev_close = NoPx

\* C13: when the intraday series fails or is empty the extended-hours price
\* is the post-market price of the snapshot when it has one and absent
\* otherwise, whatever the regular session resolved to and never the regular
\* price or the previous close; when the series has points it is the last.
C13_ExtendedChain ==
    Built =>
        \A i \in 1..Len(quotes) :
            LET mkt == market[1]
                sym == quotes[i].sym
                x == mkt.of[sym].intra.closes
            IN IF IntraGood(mkt, sym) THEN quotes[i].ext_px = x[Len(x)]
               ELSE IF HasRow(mkt, sym) THEN quotes[i].ext_px = mkt.rows[sym].postMarketPrice
               ELSE quotes[i].ext_px = NoPx

\* The intraday series of A fails and the snapshot has both regular prices
\* but no post-market price: the regular session resolves, the extended-hours
\* price is absent and the line is the close-only line.
C13_Witness ==
    /\ Built
    /\ state.tickers = << <<"A">> >>
    /\ ~IntraGood(market[1], <<"A">>)
    /\ ~DailyGood(market[1], <<"A">>)
    /\ HasRow(market[1], <<"A">>)
    /\ market[1].rows[<<"A">>] = Row(80, 100, NoPx)
    /\ quotes[1].close = 100
    /\ quotes[1].ext_px = NoPx
    /\ msg[2].kind = "close"

\* The names dict a branch of handle_updates reads: {} when it is missing.
NamesOf(st) == IF st.names.is_dict THEN st.names.d ELSE {}

\* The members of seq, each once, in the order of their first occurrence.
RECURSIVE Once(_)
Once(seq) ==
    IF seq = <<>> THEN <<>>
    ELSE <<Head(seq)>> \o Once(SelectSeq(Tail(seq), LAMBDA t : t # Head(seq)))

\* The loop is at an accepted /unname with at least one ticker token.
UnnameStep ==
    /\ LoopStep
    /\ Accepted(batch[idx], C_unname)
    /\ parse_cmd(batch[idx].text).tickers # <<>>

\* What /unname does to names: the named keys are gone, the others are as
\* they were.
UnnameDrops ==
    NamesOf(state') = {kv \in NamesOf(state) : kv[1] \notin Range(parse_cmd(batch[idx].text).tickers)}

\* The reply lists the named keys that were there, each once.
UnnameListsRemoved ==
    /\ reply'.m.head = "Removed: "
    /\ reply'.m.body = Join(SelectSeq(Once(parse_cmd(batch[idx].text).tickers),
                                      LAMBDA t : t \in Keys(NamesOf(state))))

\* C14 as stated: with any names, missing and empty included, /unname removes
\* the named keys that are there and no other, the reply lists them, and when
\* none was there the reply is the no-matches reply and names is unchanged.
C14_UnnameAnyMap ==
    [][UnnameStep =>
            /\ UnnameDrops
            /\ IF Keys(NamesOf(state)) \cap Range(parse_cmd(batch[idx].text).tickers) = {}
               THEN reply'.m.head = "No matches." /\ state'.names = state.names
               ELSE UnnameListsRemoved]_vars

\* C14: /unname removes the named keys that are there and no other.  With
\* names missing or empty the reply is the names-are-empty reply and names is
\* unchanged; otherwise the reply lists the removed keys, or is the no-matches
\* reply, with names unchanged, when none of the named keys was there.
C14_UnnameRemoves ==
    [][UnnameStep =>
            /\ UnnameDrops
            /\ IF NamesOf(state) = {}
               THEN /\ reply'.m.head = "Names: "
                    /\ reply'.m.body = EmptyMarker
                    /\ state'.names = state.names
               ELSE IF Keys(NamesOf(state)) \cap Range(parse_cmd(batch[idx].text).tickers) = {}
               THEN reply'.m.head = "No matches." /\ state'.names = state.names
               ELSE UnnameListsRemoved]_vars

\* "/unname a b" ran on names with A alone: A is gone and the reply lists A.
C14_Witness ==
    /\ pc \in {"loop", "gate"}
    /\ idx > 1
    /\ Accepted(batch[idx - 1], C_unname)
    /\ batch[idx - 1].text = T_unname_a
    /\ loaded.names = OneName
    /\ state.names = EmptyNames
    /\ reply.m.head = "Removed: "
    /\ reply.m.body = <<"A">>

\* The loop is at an accepted /name.
NameStep == LoopStep /\ Accepted(batch[idx], C_name)

\* The arguments of the /name at the loop are a ticker that normalizes to
\* something and a display text that strips to something.
NameWellFormed ==
    LET args == parse_cmd(batch[idx].text).args
    IN /\ args # <<>>
       /\ Len(SplitFirst(args)) = 2
       /\ normalize_ticker(SplitFirst(args)[1]) # <<>>
       /\ Strip(SplitFirst(args)[2]) # <<>>

\* C15: /name sets aliases[T] to the display text when it has a ticker that
\* normalizes to a non-empty T and a non-empty display text, and changes no
\* other key; otherwise (no arguments, a ticker alone, a ticker that
\* normalizes to nothing) the reply is the usage message and no field of the
\* state but last_update_id and chat_id changes.
C15_NameSetsAlias ==
    [][NameStep =>
            IF NameWellFormed
            THEN LET parts2 == SplitFirst(parse_cmd(batch[idx].text).args)
                     t == normalize_ticker(parts2[1])
                 IN /\ state'.names.is_dict
                    /\ t \in Keys(state'.names.d)
                    /\ Get(state'.names.d, t) = Strip(parts2[2])
                    /\ {kv \in state'.names.d : kv[1] # t} = {kv \in NamesOf(state) : kv[1] # t}
            ELSE /\ reply'.m.head = UsageName
                 /\ state' = [state EXCEPT !.last_update_id = state'.last_update_id,
                                           !.chat_id = state'.chat_id]]_vars

\* "/name $ x" ran: the usage reply, names as loaded.
C15_Witness ==
    /\ pc \in {"loop", "gate"}
    /\ idx = 2
    /\ Accepted(batch[1], C_name)
    /\ batch[1].text = T_name_bad
    /\ reply.m.head = UsageName
    /\ state.names = loaded.names
    /\ state.last_update_id = batch[1].update_id
    /\ state.chat_id = 101

\* C16: without FORCE_SEND the invocation is outside the send window exactly
\* when the KST time is not in hour 6 with a minute from 30 to 45, both
\* included: inside at 06:30 and 06:45, outside at 06:29, 06:46, 07:00 and at
\* minutes 30 to 45 of every other hour.
C16_SendWindow ==
    (pc = "save" /\ ~force_send) =>
        (decision = "not_in_window" <=> ~(now.tod[1] = 6 /\ now.tod[2] \in 30..45))

\* At 06:45 the report was sent.
C16_Witness ==
    /\ pc = "save"
    /\ ~force_send
    /\ now.tod = <<6, 45>>
    /\ decision = "sent"

AddsPresent(u, w) ==
    /\ Accepted(u, C_add)
    /\ parse_cmd(u.text).tickers # <<>>
    /\ Range(parse_cmd(u.text).tickers) \subseteq Range(w)

\* This invocation fetched updates, each an authorized /add of tickers that
\* were all on the watchlist it loaded, and its loop ran to the end.
OnlyAddsOfPresent ==
    /\ batch # <<>>
    /\ idx = Len(batch) + 1
    /\ \A i \in 1..Len(batch) : AddsPresent(batch[i], loaded.tickers)

\* C18 as stated: an invocation whose updates are authorized /add commands of
\* tickers already on the watchlist does not mark the state as changed and
\* writes nothing.
C18_NoChangeNoWrite ==
    [][(ExitStep /\ OnlyAddsOfPresent) => (~state_changed /\ persisted' = persisted)]_vars

\* C18: such an invocation leaves tickers as loaded, yet handle_updates
\* returns true, because every update advances last_update_id, and state.json
\* is written with the advanced last_update_id.
C18_EveryUpdateMarksChanged ==
    [][(ExitStep /\ OnlyAddsOfPresent) =>
            /\ state.tickers = loaded.tickers
            /\ state_changed
            /\ persisted'.st = state
            /\ persisted'.st.last_update_id > persisted.st.last_update_id]_vars

\* B was on the watchlist, "/add b" was handled and the state is to be saved.
C18_Witness ==
    /\ pc = "save"
    /\ OnlyAddsOfPresent
    /\ batch[1].text = T_add_b
    /\ state.tickers = loaded.tickers
    /\ state.last_update_id > loaded.last_update_id
    /\ state_changed

\* C19: when the gate passes (the report is due and was not sent on the date)
\* and chat_id is null, main builds and sends nothing and leaves the state,
\* last_sent_kst_date included, as it is, and state.json does not get the
\* date; so an invocation on the same date that follows it and knows a chat
\* attempts the send when the report is due.
C19_NoChatLeavesDate ==
    [][/\ (/\ GateStep
           /\ force_send \/ InWindowNow
           /\ state.last_sent_kst_date # now.date
           /\ state.chat_id = NoChat)
            => /\ decision' = "no_chat"
               /\ msg' = <<>>
               /\ state' = state
               /\ state_changed' = state_changed
               /\ sent_today' = sent_today
       /\ (ExitStep /\ decision = "no_chat" /\ persisted'.ok)
            => persisted'.st.last_sent_kst_date # now.date
       /\ (/\ GateStep
           /\ nochat_today
           /\ force_send \/ InWindowNow
           /\ state.chat_id # NoChat)
            => decision' \in {"sent", "send_failed"}]_vars

\* The invocation before this one, on the same date, had no chat to send the
\* due report to; this one learned the chat from an update and sent it.
C19_Witness ==
    /\ pc = "save"
    /\ nochat_today
    /\ loaded.chat_id = NoChat
    /\ state.chat_id # NoChat
    /\ decision = "sent"
    /\ state.last_sent_kst_date = now.date

\* C20: no percentage of a report is a division by zero: a line carries a
\* close percentage only when the previous close is there and not 0 (and the
\* close is there), an after-hours percentage only when the close is there
\* and not 0 (and the extended-hours price is there), and a ticker whose
\* previous close is 0 gets the after-hours-only line or the
\* insufficient-data line.
C20_NoDivisionByZero ==
    Built =>
        \A i \in 1..Len(quotes) :
            /\ msg[i + 1].close_pct # DivError
            /\ msg[i + 1].after_pct # DivError
            /\ msg[i + 1].close_pct # NoPct
                => /\ quotes[i].prev_close \notin {NoPx, 0}
                   /\ quotes[i].close # NoPx
            /\ msg[i + 1].after_pct # NoPct
                => /\ quotes[i].close \notin {NoPx, 0}
                   /\ quotes[i].ext_px # NoPx
            /\ quotes[i].prev_close = 0
                => msg[i + 1].kind \in {"after_only", "insufficient"}

\* The previous close of A is 0, its close 100 and its extended-hours price
\* 95: the line is the after-hours-only line, at -5.0%.
C20_Witness ==
    /\ Built
    /\ state.tickers = << <<"A">> >>
    /\ quotes[1].prev_close = 0
    /\ quotes[1].close = 100
    /\ quotes[1].ext_px = 95
    /\ msg[2].kind = "after_only"
    /\ msg[2].close_pct = NoPct
    /\ msg[2].after_pct = -50

====
